---- MODULE Spec2Model ----
(***************************************************************************)
(* Model of lemur/plugins/lemur_fastly/plugin.py: the Fastly destination   *)
(* plugin's upload() and the remote TLS resources it reads and changes     *)
(* (private keys, certificates, activations).  Every remote call is one    *)
(* step of a run; each call either succeeds or raises, and the helper      *)
(* functions of the plugin catch what is raised.                           *)
(***************************************************************************)
EXTENDS Integers, Sequences, FiniteSets, TLC

\* ------------------------------------------------------------------ bounds
\* activations on the remote service (the plugin never creates or deletes one)
NumActs == 2
\* remote calls that fail (raise) in one behaviour
MaxFailures == 1

\* ------------------------------------------------------------ value spaces
Names == {"a.example", "b.example"}
PrivateKeys == {"K1", "K2"}
\* the calls of upload() that can be under way at once: one per worker
Runs == {"r1", "r2"}
ActIds == 1..NumActs

\* Python's None for priv_id, cert_id, new_cert_id; ids of resources are >= 1
None == 0

\* get_public_key_sha1: the hex SHA-1 of the PEM public key of a private key
get_public_key_sha1(private_key) ==
    CASE private_key = "K1" -> "sha1-of-pub-K1"
      [] private_key = "K2" -> "sha1-of-pub-K2"

Fingerprints == {get_public_key_sha1(k) : k \in PrivateKeys}

\* a certificate body as upload() receives it: its subject CN and its public key
Bodies == [cn : Names, pub : Fingerprints]

\* common_name(parse_certificate(body)): the subject's first CN attribute
common_name(body) == body.cn

\* ---------------------------------------------------------------- state
VARIABLES
    keys,       \* remote /tls/private_keys: set of [id, name, sha1]
    certs,      \* remote /tls/certificates: set of [id, name, sha1]
    acts,       \* remote /tls/activations: activation id -> certificate id
    nextKeyId,  \* next id the remote service assigns to a private key
    nextCertId, \* next id the remote service assigns to a certificate
    run,        \* run -> the locals of upload() and its position
    phase,      \* which run of upload() is next or under way: first, second, over
    prev,       \* what the last completed run was called with and how it went
    nfail       \* remote calls that have failed so far

vars == <<keys, certs, acts, nextKeyId, nextCertId, run, phase, prev, nfail>>

\* the locals of upload() before it is called
IdleRun ==
    [pc |-> "idle", cname |-> "", private_key |-> "", body |-> [cn |-> "", pub |-> ""],
     priv_keys |-> <<>>, cert_keys |-> <<>>,
     priv_id |-> None, cert_id |-> None, name_found |-> FALSE,
     new_cert_id |-> None, act_id |-> <<>>, i |-> 0,
     message |-> [kind |-> "none", cert |-> None, acts |-> <<>>],
     logged |-> <<>>, calls |-> <<>>, keys0 |-> {}, certs0 |-> {}, acts0 |-> <<>>]

NoPrev ==
    [cname |-> "", private_key |-> "", ok |-> FALSE, uploaded |-> FALSE,
     priv_id |-> None, cert_id |-> None, create_failed |-> FALSE, change_failed |-> FALSE,
     outcome |-> [returned |-> None, message |-> "none"]]

\* ------------------------------------------------------------- helpers
\* every order in which a listing may return the members of S
Orderings(S) ==
    {s \in [1..Cardinality(S) -> S] : \A x \in S : \E j \in DOMAIN s : s[j] = x}

\* one remote call as a recording client sees it: the function that made it,
\* the resource it names, the certificate an activation is pointed to, and
\* whether it returned
Call(op, id, to, ok) == [op |-> op, id |-> id, to |-> to, ok |-> ok]

\* one log_data record handed to current_app.logger.debug
Log(function, message, id) == [function |-> function, message |-> message, id |-> id]

\* CertLoop ended by the first certificate named cname: the variant
\* C19_LastSameNamedCertificate must reject
RECURSIVE CertLoop_FirstWins(_, _, _, _)
CertLoop_FirstWins(cert_keys, cname, cert_id, j) ==
    IF j > Len(cert_keys) THEN cert_id
    ELSE IF cert_keys[j].name = cname THEN cert_keys[j].id
    ELSE CertLoop_FirstWins(cert_keys, cname, cert_id, j + 1)

\* CertLoop without the comparison of the names, so that the last certificate
\* of the listing wins whatever it is called: the variant C23_Frame must reject
CertLoop_AnyName(cert_keys, cname, cert_id, j) ==
    IF cert_keys = <<>> THEN cert_id ELSE cert_keys[Len(cert_keys)].id

\* lines 69-71: the inner loop; the last certificate named cname wins
RECURSIVE CertLoop(_, _, _, _)
CertLoop(cert_keys, cname, cert_id, j) ==
    IF j > Len(cert_keys) THEN cert_id
    ELSE CertLoop(cert_keys, cname,
                  IF cert_keys[j].name = cname THEN cert_keys[j].id ELSE cert_id,
                  j + 1)

\* KeyMatches with the digest compared to the PEM text itself (the call of
\* get_public_key_sha1 left out): the variant C3_Idempotence must reject
KeyMatches_NoDigest(each, private_key) == each.sha1 = private_key

\* line 64: the comparison of the remote key's digest with the local key's
KeyMatches(each, private_key) == each.sha1 = get_public_key_sha1(private_key)

\* KeyLoop without line 65: a matching key ends the loop but leaves the
\* priv_id of an earlier key of the same name in place: the variant
\* C7_MatchNoOp must reject
RECURSIVE KeyLoop_KeepsPrivId(_, _, _, _, _, _)
KeyLoop_KeepsPrivId(priv_keys, cert_keys, cname, private_key, st, k) ==
    IF k > Len(priv_keys) THEN st
    ELSE LET each == priv_keys[k] IN
         IF each.name = cname
         THEN IF KeyMatches(each, private_key)
              THEN [st EXCEPT !.name_found = TRUE]
              ELSE KeyLoop_KeepsPrivId(priv_keys, cert_keys, cname, private_key,
                           [priv_id |-> each.id,
                            cert_id |-> CertLoop(cert_keys, cname, st.cert_id, 1),
                            name_found |-> TRUE],
                           k + 1)
         ELSE KeyLoop_KeepsPrivId(priv_keys, cert_keys, cname, private_key, st, k + 1)

\* KeyLoop ended by the first key of the name, whether it matches or not: the
\* variant C18_LastSameNamedKey must reject
RECURSIVE KeyLoop_FirstWins(_, _, _, _, _, _)
KeyLoop_FirstWins(priv_keys, cert_keys, cname, private_key, st, k) ==
    IF k > Len(priv_keys) THEN st
    ELSE LET each == priv_keys[k] IN
         IF each.name = cname
         THEN IF KeyMatches(each, private_key)
              THEN [st EXCEPT !.priv_id = None, !.name_found = TRUE]
              ELSE [priv_id |-> each.id,
                    cert_id |-> CertLoop(cert_keys, cname, st.cert_id, 1),
                    name_found |-> TRUE]
         ELSE KeyLoop_FirstWins(priv_keys, cert_keys, cname, private_key, st, k + 1)

\* lines 61-71: the loop over the private key listing; st holds priv_id,
\* cert_id and name_found
RECURSIVE KeyLoop(_, _, _, _, _, _)
KeyLoop(priv_keys, cert_keys, cname, private_key, st, k) ==
    IF k > Len(priv_keys) THEN st
    ELSE LET each == priv_keys[k] IN
         IF each.name = cname
         THEN IF KeyMatches(each, private_key)
              THEN [st EXCEPT !.priv_id = None, !.name_found = TRUE]
              ELSE KeyLoop(priv_keys, cert_keys, cname, private_key,
                           [priv_id |-> each.id,
                            cert_id |-> CertLoop(cert_keys, cname, st.cert_id, 1),
                            name_found |-> TRUE],
                           k + 1)
         ELSE KeyLoop(priv_keys, cert_keys, cname, private_key, st, k + 1)

\* UploadNeeded without "or not name_found": the variant C6_ColdStart must
\* reject
UploadNeeded_OnlyOnMismatch(priv_id, name_found) == priv_id # None

\* line 72: the decision to upload
UploadNeeded(priv_id, name_found) == priv_id # None \/ ~name_found

\* ActivateNeeded always false, so that Cleanup follows the listing of the
\* activations at once: the variant C17_CallOrder must reject
ActivateNeeded_Never(act_id, new_cert_id) == FALSE

\* ActivateNeeded without "and new_cert_id", so that the activations found
\* are updated whatever post_certificate returned: the variant
\* C22_UpdatesToCreatedCertificate must reject
ActivateNeeded_AnyId(act_id, new_cert_id) == Len(act_id) > 0

\* line 78: the decision to repoint the activations found
ActivateNeeded(act_id, new_cert_id) == Len(act_id) > 0 /\ new_cert_id # None

\* AfterActivate with the two deletes in the other order (the private key
\* first): the variant C5_Rotation must reject
AfterActivate_KeyFirst(cert_id, priv_id) ==
    IF priv_id # None THEN "delete_private_key"
    ELSE IF cert_id # None THEN "delete_certificate"
    ELSE "debug"

\* lines 82-85: what follows the Activate step
AfterActivate(cert_id, priv_id) ==
    IF cert_id # None THEN "delete_certificate"
    ELSE IF priv_id # None THEN "delete_private_key"
    ELSE "debug"

\* lines 84-85: what follows delete_certificate
AfterDeleteCertificate(priv_id) ==
    IF priv_id # None THEN "delete_private_key" ELSE "debug"

\* ActivationMatches without the comparison of the certificate ids, so that
\* get_activation returns every activation: the variant C15_Independence must
\* reject
ActivationMatches_Any(act_cert, cert_id) == TRUE

\* lines 401-403: the filter of get_activation
ActivationMatches(act_cert, cert_id) == act_cert = cert_id

Set(r, rec) == run' = [run EXCEPT ![r] = rec]

\* ---------------------------------------------------------------- Init

\* What the remote service holds before the first run: what at most two
\* earlier uploads created, each a private key and the certificate paired with
\* it, and activations bound to those certificates.  Names and keys are
\* interchangeable, so the first earlier upload is fixed; the runs draw their
\* inputs from all names and keys.  The ids of the activations are opaque, so
\* the activations there are carry the ids 1..n.  Orphans and unpaired
\* resources come from runs with failing calls.
Uploads == [name : Names, key : PrivateKeys]

InitialUploads ==
    {<<>>} \cup {<<[name |-> "a.example", key |-> "K1"]>>}
           \cup {<<[name |-> "a.example", key |-> "K1"], u>> : u \in Uploads}

Init ==
    /\ \E m \in InitialUploads :
           /\ keys = {[id |-> j, name |-> m[j].name,
                       sha1 |-> get_public_key_sha1(m[j].key)] : j \in DOMAIN m}
           /\ certs = {[id |-> j, name |-> m[j].name,
                        sha1 |-> get_public_key_sha1(m[j].key)] : j \in DOMAIN m}
           /\ nextKeyId = Len(m) + 1
           /\ nextCertId = Len(m) + 1
           /\ \E n \in 0..NumActs : acts \in [1..n -> DOMAIN m]
    /\ run = [r \in Runs |-> IdleRun]
    /\ phase = "first"
    /\ prev = NoPrev
    /\ nfail = 0

\* ------------------------------------------------------------- actions
\* a remote call returns normally (requests' raise_for_status() does not raise)
Returns == UNCHANGED nfail

\* a remote call raises: a transport error or a non-2xx answer
Raises == nfail < MaxFailures /\ nfail' = nfail + 1

\* lines 44-55: upload() is called; the locals are initialised
Start(r, body, private_key) ==
    /\ run[r].pc = "idle"
    /\ phase \in {"first", "second"}
    /\ body.pub = get_public_key_sha1(private_key)
    /\ Set(r, [IdleRun EXCEPT !.pc = "get_all_private_keys",
                              !.cname = common_name(body),
                              !.body = body,
                              !.private_key = private_key,
                              !.keys0 = keys, !.certs0 = certs, !.acts0 = acts])
    /\ UNCHANGED <<keys, certs, acts, nextKeyId, nextCertId, phase, prev, nfail>>

\* line 56, lines 110-141: the listing of the private keys
PrivateKeysListed(r, priv_keys, ok) ==
    Set(r, [run[r] EXCEPT !.pc = "get_all_certificates",
                          !.priv_keys = priv_keys,
                          !.logged = Append(@, Log("get_all_private_keys",
                                                   IF ok THEN "" ELSE "Failure to get all private keys",
                                                   None)),
                          !.calls = Append(@, Call("get_all_private_keys", None, None, ok))])

GetAllPrivateKeys(r) ==
    /\ run[r].pc = "get_all_private_keys"
    /\ \/ /\ Returns
          /\ \E s \in Orderings(keys) : PrivateKeysListed(r, s, TRUE)
       \/ /\ Raises
          /\ PrivateKeysListed(r, <<>>, FALSE)
    /\ UNCHANGED <<keys, certs, acts, nextKeyId, nextCertId, phase, prev>>

\* lines 57-72 and 86-87: the listing of the certificates, the loop over the
\* two listings and the decision taken on its result
Lookup(r, cert_keys, ok) ==
    LET st == KeyLoop(run[r].priv_keys, cert_keys, run[r].cname, run[r].private_key,
                      [priv_id |-> None, cert_id |-> None, name_found |-> FALSE], 1)
        up == UploadNeeded(st.priv_id, st.name_found)
    IN  Set(r, [run[r] EXCEPT !.cert_keys = cert_keys,
                              !.priv_id = st.priv_id,
                              !.cert_id = st.cert_id,
                              !.name_found = st.name_found,
                              !.pc = IF up THEN "post_private_key" ELSE "debug",
                              !.message = IF up THEN @
                                          ELSE [kind |-> "up to date", cert |-> None, acts |-> <<>>],
                              !.logged = Append(@, Log("get_all_certificates",
                                                       IF ok THEN "" ELSE "Failure to get all public keys",
                                                       None)),
                              !.calls = Append(@, Call("get_all_certificates", None, None, ok))])

GetAllCertificates(r) ==
    /\ run[r].pc = "get_all_certificates"
    /\ \/ /\ Returns
          /\ \E s \in Orderings({[id |-> c.id, name |-> c.name] : c \in certs}) :
                Lookup(r, s, TRUE)
       \/ /\ Raises
          /\ Lookup(r, <<>>, FALSE)
    /\ UNCHANGED <<keys, certs, acts, nextKeyId, nextCertId, phase, prev>>

\* line 73, lines 177-215: the create of the new private key; what it
\* returns is dropped by upload()
PrivateKeyPosted(r, id) ==
    Set(r, [run[r] EXCEPT !.pc = "post_certificate",
                          !.logged = Append(@, Log("post_private_key",
                                                   IF id # None THEN "private key upload: success"
                                                   ELSE "private key upload: failure",
                                                   None)),
                          !.calls = Append(@, Call("post_private_key", id, None, id # None))])

PostPrivateKey(r) ==
    /\ run[r].pc = "post_private_key"
    /\ \/ /\ Returns
          /\ keys' = keys \cup {[id |-> nextKeyId, name |-> run[r].cname,
                                 sha1 |-> get_public_key_sha1(run[r].private_key)]}
          /\ nextKeyId' = nextKeyId + 1
          /\ PrivateKeyPosted(r, nextKeyId)
       \/ /\ Raises
          /\ UNCHANGED <<keys, nextKeyId>>
          /\ PrivateKeyPosted(r, None)
    /\ UNCHANGED <<certs, acts, nextCertId, phase, prev>>

\* lines 75-76, lines 306-332: the create of the new certificate
CertificatePosted(r, id) ==
    Set(r, [run[r] EXCEPT !.pc = "get_activation",
                          !.new_cert_id = id,
                          !.message = [kind |-> "updated", cert |-> None, acts |-> <<>>],
                          !.logged = Append(@, Log("post_certificate",
                                                   IF id # None THEN "certificate upload success"
                                                   ELSE "certificate upload failure",
                                                   None)),
                          !.calls = Append(@, Call("post_certificate", id, None, id # None))])

PostCertificate(r) ==
    /\ run[r].pc = "post_certificate"
    /\ \/ /\ Returns
          /\ certs' = certs \cup {[id |-> nextCertId, name |-> run[r].cname,
                                   sha1 |-> run[r].body.pub]}
          /\ nextCertId' = nextCertId + 1
          /\ CertificatePosted(r, nextCertId)
       \/ /\ Raises
          /\ UNCHANGED <<certs, nextCertId>>
          /\ CertificatePosted(r, None)
    /\ UNCHANGED <<keys, acts, nextKeyId, phase, prev>>

\* lines 77-78, lines 391-409: the listing of the activations of cert_id
Activations(r, act_id, ok) ==
    Set(r, [run[r] EXCEPT !.act_id = act_id,
                          !.i = 1,
                          !.pc = IF ActivateNeeded(act_id, run[r].new_cert_id)
                                 THEN "patch_activation"
                                 ELSE AfterActivate(run[r].cert_id, run[r].priv_id),
                          !.logged = Append(@, Log("get_activation",
                                                   IF ok THEN "activation get success"
                                                   ELSE "activation get failure",
                                                   None)),
                          !.calls = Append(@, Call("get_activation", run[r].cert_id, None, ok))])

GetActivation(r) ==
    /\ run[r].pc = "get_activation"
    /\ \/ /\ Returns
          /\ \E s \in Orderings({a \in DOMAIN acts :
                                    ActivationMatches(acts[a], run[r].cert_id)}) :
                Activations(r, s, TRUE)
       \/ /\ Raises
          /\ Activations(r, <<>>, FALSE)
    /\ UNCHANGED <<keys, certs, acts, nextKeyId, nextCertId, phase, prev>>

\* Patched with the exception of a failed update not caught, so that it ends
\* the run: the variant C8_PartialFailureContained must reject
Patched_Propagates(r, ok) ==
    Set(r, [run[r] EXCEPT !.i = @ + 1,
                          !.pc = IF ~ok THEN "debug"
                                 ELSE IF run[r].i = Len(run[r].act_id)
                                 THEN AfterActivate(run[r].cert_id, run[r].priv_id)
                                 ELSE "patch_activation",
                          !.message = [kind |-> "activated", cert |-> run[r].new_cert_id,
                                       acts |-> run[r].act_id],
                          !.logged = Append(@, Log("patch_activation",
                                                   IF ok THEN "activation patch success"
                                                   ELSE "activation pathc failure",
                                                   run[r].act_id[run[r].i])),
                          !.calls = Append(@, Call("patch_activation", run[r].act_id[run[r].i],
                                                   run[r].new_cert_id, ok))])

\* lines 79-81, lines 412-434: one turn of the loop over act_id
Patched(r, ok) ==
    Set(r, [run[r] EXCEPT !.i = @ + 1,
                          !.pc = IF run[r].i = Len(run[r].act_id)
                                 THEN AfterActivate(run[r].cert_id, run[r].priv_id)
                                 ELSE "patch_activation",
                          !.message = [kind |-> "activated", cert |-> run[r].new_cert_id,
                                       acts |-> run[r].act_id],
                          !.logged = Append(@, Log("patch_activation",
                                                   IF ok THEN "activation patch success"
                                                   ELSE "activation pathc failure",
                                                   run[r].act_id[run[r].i])),
                          !.calls = Append(@, Call("patch_activation", run[r].act_id[run[r].i],
                                                   run[r].new_cert_id, ok))])

PatchActivation(r) ==
    /\ run[r].pc = "patch_activation"
    /\ \/ /\ Returns
          /\ run[r].act_id[run[r].i] \in DOMAIN acts
          /\ acts' = [acts EXCEPT ![run[r].act_id[run[r].i]] = run[r].new_cert_id]
          /\ Patched(r, TRUE)
       \/ /\ Raises
          /\ UNCHANGED acts
          /\ Patched(r, FALSE)
    /\ UNCHANGED <<keys, certs, nextKeyId, nextCertId, phase, prev>>

\* lines 82-83, lines 359-371: the delete of the old certificate
CertificateDeleted(r, ok) ==
    Set(r, [run[r] EXCEPT !.pc = AfterDeleteCertificate(run[r].priv_id),
                          !.logged = Append(@, Log("delete_certificate",
                                                   IF ok THEN "certificate delete success"
                                                   ELSE "certificate delete failure",
                                                   run[r].cert_id)),
                          !.calls = Append(@, Call("delete_certificate", run[r].cert_id, None, ok))])

DeleteCertificate(r) ==
    /\ run[r].pc = "delete_certificate"
    /\ \/ /\ Returns
          /\ \E c \in certs : c.id = run[r].cert_id
          /\ certs' = {c \in certs : c.id # run[r].cert_id}
          /\ CertificateDeleted(r, TRUE)
       \/ /\ Raises
          /\ UNCHANGED certs
          /\ CertificateDeleted(r, FALSE)
       \/ /\ \A c \in certs : c.id # run[r].cert_id
          /\ UNCHANGED <<certs, nfail>>
          /\ CertificateDeleted(r, FALSE)
    /\ UNCHANGED <<keys, acts, nextKeyId, nextCertId, phase, prev>>

\* lines 84-85, lines 218-233: the delete of the old private key
PrivateKeyDeleted(r, ok) ==
    Set(r, [run[r] EXCEPT !.pc = "debug",
                          !.logged = Append(@, Log("delete_private_key",
                                                   IF ok THEN "delete: private key success"
                                                   ELSE "delete: private key failure",
                                                   None)),
                          !.calls = Append(@, Call("delete_private_key", run[r].priv_id, None, ok))])

DeletePrivateKey(r) ==
    /\ run[r].pc = "delete_private_key"
    /\ \/ /\ Returns
          /\ \E k \in keys : k.id = run[r].priv_id
          /\ keys' = {k \in keys : k.id # run[r].priv_id}
          /\ PrivateKeyDeleted(r, TRUE)
       \/ /\ Raises
          /\ UNCHANGED keys
          /\ PrivateKeyDeleted(r, FALSE)
       \/ /\ \A k \in keys : k.id # run[r].priv_id
          /\ UNCHANGED <<keys, nfail>>
          /\ PrivateKeyDeleted(r, FALSE)
    /\ UNCHANGED <<certs, acts, nextKeyId, nextCertId, phase, prev>>

\* lines 86-88: what upload() gives its caller: it has no return statement
\* and lets no exception out, so the caller gets None; the message it logs
\* last is the one of line 74, 80 or 86
Outcome(r) == [returned |-> None, message |-> run[r].message.kind]

\* line 88: the message is logged and upload() returns (None)
Return(r) ==
    /\ run[r].pc = "debug"
    /\ phase' = IF phase = "first" THEN "second" ELSE "over"
    /\ prev' = [cname |-> run[r].cname, private_key |-> run[r].private_key,
                ok |-> \A j \in DOMAIN run[r].calls : run[r].calls[j].ok,
                uploaded |-> \E j \in DOMAIN run[r].calls :
                                run[r].calls[j].op = "post_private_key",
                priv_id |-> run[r].priv_id, cert_id |-> run[r].cert_id,
                create_failed |-> \E j \in DOMAIN run[r].calls :
                    /\ ~run[r].calls[j].ok
                    /\ run[r].calls[j].op \in {"post_private_key", "post_certificate"},
                change_failed |-> \E j \in DOMAIN run[r].calls :
                    /\ ~run[r].calls[j].ok
                    /\ run[r].calls[j].op \notin {"get_all_private_keys",
                                                  "get_all_certificates", "get_activation"},
                outcome |-> Outcome(r)]
    /\ Set(r, IdleRun)
    /\ UNCHANGED <<keys, certs, acts, nextKeyId, nextCertId, nfail>>

\* two calls of upload(), made one after the other by the same worker
Next ==
    \E r \in {"r1"} :
        \/ \E body \in Bodies, private_key \in PrivateKeys : Start(r, body, private_key)
        \/ GetAllPrivateKeys(r)
        \/ GetAllCertificates(r)
        \/ PostPrivateKey(r)
        \/ PostCertificate(r)
        \/ GetActivation(r)
        \/ PatchActivation(r)
        \/ DeleteCertificate(r)
        \/ DeletePrivateKey(r)
        \/ Return(r)

Spec == Init /\ [][Next]_vars

\* ---------------------------------------------- two calls at the same time
\* What the remote service holds before two workers call upload(): nothing, or
\* what one earlier upload created, or what two earlier uploads for different
\* names created, with every activation bound to one of the certificates
\* (activations are interchangeable, so they are taken in the order of the
\* certificates they are bound to).
\* The remote calls of the two workers fail only where the remote service has
\* to refuse (a delete of what is no longer there).
ConcurrentUploads ==
    {<<>>, <<[name |-> "a.example", key |-> "K1"]>>,
     <<[name |-> "a.example", key |-> "K1"], [name |-> "b.example", key |-> "K1"]>>}

InitConcurrent ==
    /\ \E m \in ConcurrentUploads :
           /\ keys = {[id |-> j, name |-> m[j].name,
                       sha1 |-> get_public_key_sha1(m[j].key)] : j \in DOMAIN m}
           /\ certs = {[id |-> j, name |-> m[j].name,
                        sha1 |-> get_public_key_sha1(m[j].key)] : j \in DOMAIN m}
           /\ nextKeyId = Len(m) + 1
           /\ nextCertId = Len(m) + 1
           /\ acts \in [IF m = <<>> THEN {} ELSE ActIds -> DOMAIN m]
           /\ \A a \in DOMAIN acts, b \in DOMAIN acts : a <= b => acts[a] <= acts[b]
    /\ run = [r \in Runs |-> IdleRun]
    /\ phase = "first"
    /\ prev = NoPrev
    /\ nfail = MaxFailures

\* lines 44-55 in two workers: each is handed a certificate and its key; no
\* remote call has been made yet.  Workers, names and keys are
\* interchangeable, and a run for a key that is already there does nothing:
\* r1 is the run, or one of the runs, with the name and a key the first earlier
\* upload did not have.
StartBoth ==
    /\ phase = "first"
    /\ \A r \in Runs : run[r].pc = "idle"
    /\ \E body \in [Runs -> Bodies], private_key \in [Runs -> PrivateKeys] :
          /\ \A r \in Runs : body[r].pub = get_public_key_sha1(private_key[r])
          /\ common_name(body["r1"]) = "a.example" /\ private_key["r1"] = "K2"
          /\ run' = [r \in Runs |->
                       [IdleRun EXCEPT !.pc = "get_all_private_keys",
                                       !.cname = common_name(body[r]),
                                       !.body = body[r],
                                       !.private_key = private_key[r],
                                       !.keys0 = keys, !.certs0 = certs, !.acts0 = acts]]
    /\ UNCHANGED <<keys, certs, acts, nextKeyId, nextCertId, phase, prev, nfail>>

\* the remote calls of the two workers interleave in every order; a worker
\* is not called again
NextConcurrent ==
    \/ StartBoth
    \/ \E r \in Runs :
          \/ GetAllPrivateKeys(r)
          \/ GetAllCertificates(r)
          \/ PostPrivateKey(r)
          \/ PostCertificate(r)
          \/ GetActivation(r)
          \/ PatchActivation(r)
          \/ DeleteCertificate(r)
          \/ DeletePrivateKey(r)
          \/ Return(r)

SpecConcurrent == InitConcurrent /\ [][NextConcurrent]_vars

\* ------------------------------------------------------------ properties
Creates == {"post_private_key", "post_certificate"}
Updates == {"patch_activation"}
Deletes == {"delete_certificate", "delete_private_key"}
Listings == {"get_all_private_keys", "get_all_certificates"}
Mutations == Creates \cup Updates \cup Deletes

\* the positions in the calls of run r at which one of ops was called
Issued(r, ops) == {j \in DOMAIN run[r].calls : run[r].calls[j].op \in ops}

\* the calls of run r that create, update or delete, in the order issued
MutationsOf(r) == SelectSeq(run[r].calls, LAMBDA c : c.op \in Mutations)

\* every call run r has made so far returned
AllReturned(r) == \A j \in DOMAIN run[r].calls : run[r].calls[j].ok

\* run r has made its last remote call and is about to log and return
Finished(r) == run[r].pc = "debug"

\* the fingerprint run r wants on the remote service
Desired(r) == get_public_key_sha1(run[r].private_key)

\* C1: if the create of the new private key or of the new certificate fails,
\* the run issues no delete, and the keys and certificates the remote service
\* held when the run started are all still there.
C1_NoDeleteAfterFailedCreate ==
    \A r \in Runs :
        (\E j \in Issued(r, Creates) : ~run[r].calls[j].ok)
            => /\ Issued(r, Deletes) = {}
               /\ run[r].keys0 \subseteq keys
               /\ run[r].certs0 \subseteq certs

\* C2: no activation references a certificate that is not on the remote
\* service (any more).
C2_NoActivationOnDeletedCertificate ==
    \A a \in DOMAIN acts : \E c \in certs : c.id = acts[a]

\* the listing of the private keys, if run r has made it, returned
KeysListed(r) == \A j \in Issued(r, {"get_all_private_keys"}) : run[r].calls[j].ok

\* run r has made no create, update or delete, is at no step that makes one,
\* has left the remote service as it found it and, once at its end, says so
NoOp(r) ==
    /\ Issued(r, Mutations) = {}
    /\ run[r].pc \in {"get_all_private_keys", "get_all_certificates", "debug"}
    /\ keys = run[r].keys0 /\ certs = run[r].certs0 /\ acts = run[r].acts0
    /\ Finished(r) => run[r].message.kind = "up to date"

C4_NoGap ==
    \A r \in Runs :
        (/\ run[r].pc # "idle" /\ run[r].cert_id # None
         /\ \E a \in DOMAIN run[r].acts0 : run[r].acts0[a] = run[r].cert_id)
            => \E a \in DOMAIN acts :
                  /\ acts[a] \in {run[r].cert_id, run[r].new_cert_id}
                  /\ \E c \in certs : c.id = acts[a]

\* the inventory run r started with holds exactly one private key named as
\* the certificate, with another fingerprint, and exactly one certificate of
\* that name
RotationStart(r) ==
    /\ Cardinality({k \in run[r].keys0 : k.name = run[r].cname}) = 1
    /\ \A k \in run[r].keys0 : k.name = run[r].cname => k.sha1 # Desired(r)
    /\ Cardinality({c \in run[r].certs0 : c.name = run[r].cname}) = 1

OldKey(r) == CHOOSE k \in run[r].keys0 : k.name = run[r].cname
OldCert(r) == CHOOSE c \in run[r].certs0 : c.name = run[r].cname
OldActs(r) == {a \in DOMAIN run[r].acts0 : run[r].acts0[a] = OldCert(r).id}

\* C5: rotation.  From one private key named N with another fingerprint, one
\* certificate named N and n activations on it, a run in which every call
\* returns issues exactly: the create of the key, the create of the
\* certificate, one update per activation to the id that create returned, the
\* delete of the old certificate, the delete of the old private key, in this
\* order.
C5_Rotation ==
    \A r \in Runs :
        (Finished(r) /\ AllReturned(r) /\ RotationStart(r))
            => LET m == MutationsOf(r)
                   n == Cardinality(OldActs(r))
               IN  /\ Len(m) = n + 4
                   /\ m[1].op = "post_private_key"
                   /\ m[2].op = "post_certificate"
                   /\ \A j \in 3..(n + 2) :
                         m[j].op = "patch_activation" /\ m[j].to = m[2].id
                   /\ {m[j].id : j \in 3..(n + 2)} = OldActs(r)
                   /\ m[n + 3] = Call("delete_certificate", OldCert(r).id, None, TRUE)
                   /\ m[n + 4] = Call("delete_private_key", OldKey(r).id, None, TRUE)

\* C5's case: a rotation with two activations on the old certificate
C5_Witness ==
    \E r \in Runs :
        /\ Finished(r) /\ AllReturned(r) /\ RotationStart(r)
        /\ Cardinality(OldActs(r)) = 2
        /\ Len(MutationsOf(r)) = 6

ColdStart(r) ==
    run[r].pc # "idle" /\ run[r].keys0 = {} /\ run[r].certs0 = {} /\ DOMAIN run[r].acts0 = {}

\* C6: cold start.  From an empty inventory a run issues one create of a
\* private key and one create of a certificate, no update and no delete, and
\* when its calls return the remote service holds exactly that key and that
\* certificate.
C6_ColdStart ==
    \A r \in Runs :
        (ColdStart(r) /\ Finished(r))
            => /\ Cardinality(Issued(r, {"post_private_key"})) = 1
               /\ Cardinality(Issued(r, {"post_certificate"})) = 1
               /\ Issued(r, Updates) = {}
               /\ Issued(r, Deletes) = {}
               /\ AllReturned(r) =>
                     /\ Cardinality(keys) = 1 /\ Cardinality(certs) = 1
                     /\ \A k \in keys : k.name = run[r].cname /\ k.sha1 = Desired(r)
                     /\ \A c \in certs : c.name = run[r].cname /\ c.id = run[r].new_cert_id

\* C6's case: a cold start whose calls all returned, at its end
C6_Witness ==
    \E r \in Runs :
        /\ ColdStart(r) /\ Finished(r) /\ AllReturned(r)
        /\ Cardinality(keys) = 1 /\ Cardinality(certs) = 1

\* the inventory run r started with holds a private key named as the
\* certificate whose fingerprint is the desired one
Matched(r) ==
    \E k \in run[r].keys0 : k.name = run[r].cname /\ k.sha1 = Desired(r)

PatchesOf(r) == SelectSeq(run[r].calls, LAMBDA c : c.op = "patch_activation")

Paired(k, c) == k.sha1 = c.sha1

\* C9: no private key is deleted while a certificate paired with it is still
\* on the remote service: a certificate that had its key when the run started
\* still has one.
C9_KeyOutlivesCertificate ==
    \A r \in Runs :
        run[r].pc # "idle" =>
            \A c \in certs \cap run[r].certs0 :
                (\E k \in run[r].keys0 : Paired(k, c)) => (\E k \in keys : Paired(k, c))

\* C10: if the listing of the private keys or of the certificates fails, the
\* run issues no create, update or delete.
C10_NoMutationAfterFailedListing ==
    \A r \in Runs :
        (\E j \in Issued(r, Listings) : ~run[r].calls[j].ok)
            => Issued(r, Mutations) = {}

\* the private keys and the certificates named n in an inventory
Named(S, n) == {x \in S : x.name = n}

\* C11: from an inventory with at most one private key and at most one
\* certificate named N, after a run for N in which every remote call returned,
\* exactly one private key and exactly one certificate named N exist, and the
\* key has the desired fingerprint.
C11_OneKeyOneCertificate ==
    \A r \in Runs :
        (/\ Finished(r) /\ AllReturned(r)
         /\ Cardinality(Named(run[r].keys0, run[r].cname)) <= 1
         /\ Cardinality(Named(run[r].certs0, run[r].cname)) <= 1)
            => /\ Cardinality(Named(keys, run[r].cname)) = 1
               /\ Cardinality(Named(certs, run[r].cname)) = 1
               /\ \A k \in Named(keys, run[r].cname) : k.sha1 = Desired(r)

\* run r is the second run, called with what the first run was called with
SameInputs(r) ==
    /\ phase = "second" /\ run[r].pc # "idle"
    /\ prev.cname = run[r].cname /\ prev.private_key = run[r].private_key

\* the old private key and the old certificate the first run recorded and
\* uploaded replacements for, as far as run r still found them
Superseded(r) ==
    IF prev.uploaded
    THEN {k \in run[r].keys0 : k.id = prev.priv_id}
         \cup {c \in run[r].certs0 : c.id = prev.cert_id}
    ELSE {}

\* C12: convergent cleanup.  When the first run left the old key or the old
\* certificate behind next to the new ones, a second run with the same inputs
\* in which every call returns deletes them, and at most one private key and
\* one certificate of the name remain.
C12_ConvergentCleanup ==
    \A r \in Runs :
        (/\ SameInputs(r) /\ Finished(r) /\ AllReturned(r)
         /\ Superseded(r) # {}
         /\ \/ Cardinality(Named(run[r].keys0, run[r].cname)) > 1
            \/ Cardinality(Named(run[r].certs0, run[r].cname)) > 1)
            => /\ \A k \in keys : k.id # prev.priv_id
               /\ \A c \in certs : c.id # prev.cert_id
               /\ Cardinality(Named(keys, run[r].cname)) <= 1
               /\ Cardinality(Named(certs, run[r].cname)) <= 1

\* the state a retry is to reach: a private key of the name with the desired
\* fingerprint, a certificate of the name, and no activation left on the
\* certificate the first run recorded as the old one
Converged(r) ==
    /\ \E k \in keys : k.name = run[r].cname /\ k.sha1 = Desired(r)
    /\ \E c \in certs : c.name = run[r].cname
    /\ prev.cert_id # None => \A a \in DOMAIN acts : acts[a] # prev.cert_id

\* C13: a retry converges.  After a first run in which a create, an update or
\* a delete failed, a second run with the same inputs in which every call
\* returns reaches the desired state or at least changes the remote service.
\* A run that changes nothing finds the same listings the next time and does
\* the same again, so a second run that ends outside the desired state with
\* the remote service as it found it shows that no number of retries reaches
\* the desired state.
C13_RetryConverges ==
    \A r \in Runs :
        (/\ SameInputs(r) /\ Finished(r) /\ AllReturned(r)
         /\ prev.change_failed)
            => \/ Converged(r)
               \/ ~(keys = run[r].keys0 /\ certs = run[r].certs0 /\ acts = run[r].acts0)

\* ------------------------------------------- properties of concurrent runs
\* the ids the creates of run r returned
CreatedKey(r) == {run[r].calls[j].id : j \in Issued(r, {"post_private_key"})} \ {None}
CreatedCert(r) == {run[r].calls[j].id : j \in Issued(r, {"post_certificate"})} \ {None}

\* run r is through Lookup, its listing of the private keys returned, and no
\* key in it has the name of the certificate and the desired fingerprint
ObservedNoMatch(r) ==
    /\ Issued(r, {"get_all_certificates"}) # {}
    /\ KeysListed(r)
    /\ \A j \in DOMAIN run[r].priv_keys :
          ~(run[r].priv_keys[j].name = run[r].cname
            /\ KeyMatches(run[r].priv_keys[j], run[r].private_key))

\* run r made its listings before run o made its creates
ListedBefore(r, o) ==
    /\ \A j \in DOMAIN run[r].priv_keys : run[r].priv_keys[j].id \notin CreatedKey(o)
    /\ \A j \in DOMAIN run[r].cert_keys : run[r].cert_keys[j].id \notin CreatedCert(o)

\* C14: no mutual exclusion.  Two interleaved runs for the same common name
\* that both found no matching key both upload, whatever the other has done;
\* and when each made its listings before the other's creates, the private
\* key and the certificate each of them created are both on the remote
\* service once both have made their last call: two keys and two certificates
\* of the same name.
C14_NoMutualExclusion ==
    \A r \in Runs, o \in Runs :
        (/\ r # o /\ run[r].cname = run[o].cname
         /\ ObservedNoMatch(r) /\ ObservedNoMatch(o))
            => /\ run[r].pc = "post_private_key" \/ Issued(r, {"post_private_key"}) # {}
               /\ (/\ Finished(r) /\ Finished(o)
                   /\ ListedBefore(r, o) /\ ListedBefore(o, r))
                     => /\ CreatedKey(r) # {} /\ CreatedKey(o) # {}
                        /\ CreatedKey(r) \cap CreatedKey(o) = {}
                        /\ CreatedKey(r) \cup CreatedKey(o)
                              \subseteq {k.id : k \in Named(keys, run[r].cname)}
                        /\ CreatedCert(r) # {} /\ CreatedCert(o) # {}
                        /\ CreatedCert(r) \cap CreatedCert(o) = {}
                        /\ CreatedCert(r) \cup CreatedCert(o)
                              \subseteq {c.id : c \in Named(certs, run[r].cname)}

\* C14's case: from an empty inventory two runs for the same name and the same
\* key both found nothing, both uploaded and are at their end; the remote service
\* holds two private keys and two certificates of that name
C14_Witness ==
    /\ Finished("r1") /\ Finished("r2")
    /\ run["r1"].keys0 = {}
    /\ run["r1"].cname = run["r2"].cname
    /\ run["r1"].private_key = run["r2"].private_key
    /\ ObservedNoMatch("r1") /\ ObservedNoMatch("r2")
    /\ Cardinality(Named(keys, run["r1"].cname)) = 2
    /\ Cardinality(Named(certs, run["r1"].cname)) = 2

\* the first id the remote service has not yet given to a member of S
Fresh(S) == IF S = {} THEN 1 ELSE 1 + (CHOOSE n \in {x.id : x \in S} : \A x \in S : x.id <= n)

\* the remote service as run r found it
StartInventory(r) ==
    [keys |-> run[r].keys0, certs |-> run[r].certs0, acts |-> run[r].acts0,
     nextKeyId |-> Fresh(run[r].keys0), nextCertId |-> Fresh(run[r].certs0)]

\* lines 55-85 as one step: what a call of upload() that runs alone and whose
\* remote calls all return makes of the inventory inv, when the listings come
\* back in the orders priv_keys and cert_keys
SerialRun(inv, cname, private_key, priv_keys, cert_keys) ==
    LET st == KeyLoop(priv_keys, cert_keys, cname, private_key,
                      [priv_id |-> None, cert_id |-> None, name_found |-> FALSE], 1)
        new_key == [id |-> inv.nextKeyId, name |-> cname,
                    sha1 |-> get_public_key_sha1(private_key)]
        new_cert == [id |-> inv.nextCertId, name |-> cname,
                     sha1 |-> get_public_key_sha1(private_key)]
    IN  IF ~UploadNeeded(st.priv_id, st.name_found) THEN inv
        ELSE [keys |-> {k \in inv.keys \cup {new_key} : k.id # st.priv_id},
              certs |-> {c \in inv.certs \cup {new_cert} : c.id # st.cert_id},
              acts |-> [a \in DOMAIN inv.acts |->
                           IF ActivationMatches(inv.acts[a], st.cert_id)
                           THEN new_cert.id ELSE inv.acts[a]],
              nextKeyId |-> inv.nextKeyId + 1,
              nextCertId |-> inv.nextCertId + 1]

\* an inventory without the ids the remote service chose: how many private
\* keys and certificates of each name and fingerprint it holds, and the name
\* and fingerprint of the certificate each activation references
Content(inv) ==
    [keys |-> [n \in Names, f \in Fingerprints |->
                  Cardinality({k \in inv.keys : k.name = n /\ k.sha1 = f})],
     certs |-> [n \in Names, f \in Fingerprints |->
                  Cardinality({c \in inv.certs : c.name = n /\ c.sha1 = f})],
     acts |-> [a \in DOMAIN inv.acts |->
                  {<<c.name, c.sha1>> : c \in {x \in inv.certs : x.id = inv.acts[a]}}]]

\* every state a call for r followed by a call for o, each alone and with all
\* its remote calls returning, can leave behind
OneAfterTheOther(r, o) ==
    LET inv == StartInventory(r) IN
    UNION {LET mid == SerialRun(inv, run[r].cname, run[r].private_key, s[1], s[2])
           IN  {Content(SerialRun(mid, run[o].cname, run[o].private_key, t[1], t[2])) :
                    t \in Orderings(mid.keys) \X Orderings(mid.certs)} :
           s \in Orderings(inv.keys) \X Orderings(inv.certs)}

\* C15: runs for two different common names are independent.  However their
\* remote calls interleave, once both have made their last call (the return
\* that follows changes nothing remote) the remote service holds
\* what it holds after the two calls made one after the other, in either
\* order (ids aside, which the remote service hands out in the order of the
\* creates).
C15_Independence ==
    (/\ Finished("r1") /\ Finished("r2")
     /\ run["r1"].cname # run["r2"].cname)
        => LET now == Content([keys |-> keys, certs |-> certs, acts |-> acts])
           IN  /\ now \in OneAfterTheOther("r1", "r2")
               /\ now \in OneAfterTheOther("r2", "r1")

\* C15's case: both runs replaced the key and the certificate of their name
\* and moved an activation, and their calls were interleaved: the first run
\* created its key before the second and its certificate after it
C15_Witness ==
    /\ Finished("r1") /\ Finished("r2")
    /\ run["r1"].cname # run["r2"].cname
    /\ \A r \in Runs : /\ run[r].priv_id # None /\ run[r].cert_id # None
                       /\ Len(PatchesOf(r)) > 0
    /\ \E k1 \in CreatedKey("r1"), k2 \in CreatedKey("r2") : k1 < k2
    /\ \E c1 \in CreatedCert("r1"), c2 \in CreatedCert("r2") : c2 < c1

\* ------------------------------------------------------ properties, continued
\* C16: the caller can tell a run in which a create failed from a run that
\* ended up to date and from a run that uploaded: what upload() gave its
\* caller after the one differs from what it gives after the other.
C16_FailedUploadDistinguishable ==
    \A r \in Runs :
        (/\ phase = "second" /\ Finished(r) /\ AllReturned(r)
         /\ prev.create_failed)
            => prev.outcome # Outcome(r)

\* the place of a remote call in the order of upload(): the two listings of
\* Lookup, the two creates of Upload, the listing and the updates of Activate,
\* the two deletes of Cleanup
Step(op) ==
    CASE op = "get_all_private_keys" -> 1
      [] op = "get_all_certificates" -> 2
      [] op = "post_private_key" -> 3
      [] op = "post_certificate" -> 4
      [] op = "get_activation" -> 5
      [] op = "patch_activation" -> 6
      [] op = "delete_certificate" -> 7
      [] op = "delete_private_key" -> 8

\* C17: the remote calls of a run are issued in the order Lookup, Upload,
\* Activate, Cleanup, whether they return or fail: each call is of a later
\* step than the call before it, but for the updates of activations, which
\* follow one another; so both listings precede any create, the create of the key
\* precedes the create of the certificate, no update is issued before the
\* create of the certificate is over, and the delete of the old certificate
\* precedes the delete of the old key.  A create is preceded by both listings
\* and a delete by both creates, and when a delete is issued after the create
\* of the certificate returned an id, every activation found has had its
\* update attempted.
C17_CallOrder ==
    \A r \in Runs :
        LET c == run[r].calls IN
        \A l \in DOMAIN c :
            /\ l = 1 => c[l].op = "get_all_private_keys"
            /\ l = 2 => c[l].op = "get_all_certificates"
            /\ l > 1 =>
                  \/ Step(c[l - 1].op) < Step(c[l].op)
                  \/ c[l - 1].op = "patch_activation" /\ c[l].op = "patch_activation"
            /\ c[l].op \in Creates => l > 2
            /\ c[l].op = "post_certificate" => c[l - 1].op = "post_private_key"
            /\ c[l].op \in Updates => \E j \in 1..(l - 1) : c[j].op = "post_certificate"
            /\ c[l].op \in Deletes =>
                  /\ \E j \in 1..(l - 1) : c[j].op = "post_certificate"
                  /\ (run[r].act_id # <<>> /\ run[r].new_cert_id # None)
                        => Cardinality({j \in 1..(l - 1) : c[j].op = "patch_activation"})
                              = Len(run[r].act_id)

\* C17's case: a run that made every kind of call, two updates among them,
\* one of which failed
C17_Witness ==
    \E r \in Runs :
        /\ Finished(r)
        /\ {run[r].calls[j].op : j \in DOMAIN run[r].calls}
              = Listings \cup Mutations \cup {"get_activation"}
        /\ Len(PatchesOf(r)) = 2
        /\ ~AllReturned(r)

\* the keys in the listing run r got that have the name of its certificate,
\* in the order of the listing
SameNamedKeys(r) == SelectSeq(run[r].priv_keys, LAMBDA k : k.name = run[r].cname)

\* run r is through Lookup
LookedUp(r) == \E j \in DOMAIN run[r].calls : run[r].calls[j].op = "get_all_certificates"

\* C18 as stated: with more than one key of the name in the listing, the
\* first one decides: if its fingerprint differs the run uploads and records
\* that first key as the old key, the one it later deletes.
C18_FirstSameNamedKey ==
    \A r \in Runs :
        (/\ LookedUp(r) /\ Len(SameNamedKeys(r)) > 1
         /\ ~KeyMatches(SameNamedKeys(r)[1], run[r].private_key))
            => /\ run[r].priv_id = SameNamedKeys(r)[1].id
               /\ run[r].pc = "post_private_key" \/ Issued(r, {"post_private_key"}) # {}
               /\ \A j \in Issued(r, {"delete_private_key"}) :
                     run[r].calls[j].id = SameNamedKeys(r)[1].id

\* C18, amended: with more than one key of the name in the listing, every one
\* of them counts.  If any has the desired fingerprint the run records no old
\* key, creates, updates and deletes nothing and ends "up to date"; if none
\* has, the run uploads and records the last of them as the old key, the only
\* private key it deletes, and it has issued that delete when it is at its
\* end.
C18_LastSameNamedKey ==
    \A r \in Runs :
        LookedUp(r) =>
            LET same == SameNamedKeys(r) IN
            Len(same) > 1 =>
               IF \E j \in DOMAIN same : KeyMatches(same[j], run[r].private_key)
               THEN /\ run[r].priv_id = None
                    /\ Issued(r, Mutations) = {}
                    /\ Finished(r) /\ run[r].message.kind = "up to date"
               ELSE /\ run[r].priv_id = same[Len(same)].id
                    /\ run[r].pc = "post_private_key" \/ Issued(r, {"post_private_key"}) # {}
                    /\ \A j \in Issued(r, {"delete_private_key"}) :
                          run[r].calls[j].id = same[Len(same)].id
                    /\ Finished(r) => Issued(r, {"delete_private_key"}) # {}

\* C18's case: two keys of the name, neither with the desired fingerprint;
\* the run is at its end and has deleted the second of the listing, not the
\* first
C18_Witness ==
    \E r \in Runs :
        /\ Finished(r) /\ Len(SameNamedKeys(r)) = 2
        /\ \A j \in 1..2 : ~KeyMatches(SameNamedKeys(r)[j], run[r].private_key)
        /\ \E j \in Issued(r, {"delete_private_key"}) :
              /\ run[r].calls[j].ok
              /\ run[r].calls[j].id = SameNamedKeys(r)[2].id
        /\ \E k \in keys : k.id = SameNamedKeys(r)[1].id

\* the certificates in the listing run r got that have the name of its
\* certificate, in the order of the listing
SameNamedCerts(r) == SelectSeq(run[r].cert_keys, LAMBDA c : c.name = run[r].cname)

\* run r found a key of the name and none with the desired fingerprint
Mismatch(r) == LookedUp(r) /\ run[r].priv_id # None

\* C19 as stated: on a mismatch the old certificate recorded is the first
\* certificate of the name in the listing (none if there is none); it is the
\* one whose activations are listed and the one deleted.
C19_FirstSameNamedCertificate ==
    \A r \in Runs :
        Mismatch(r)
            => LET same == SameNamedCerts(r)
                   old == IF same = <<>> THEN None ELSE same[1].id
               IN  /\ run[r].cert_id = old
                   /\ \A j \in Issued(r, {"get_activation", "delete_certificate"}) :
                         run[r].calls[j].id = old

\* C19, amended: on a mismatch the old certificate recorded is the last
\* certificate of the name in the listing the run got (none if there is
\* none).  It is the certificate whose activations the run lists and, when
\* that listing returns, exactly those activations are the ones it goes
\* through; it is the only certificate the run deletes, and the run has
\* issued that delete when it is at its end.
C19_LastSameNamedCertificate ==
    \A r \in Runs :
        (run[r].priv_id # None /\ LookedUp(r))
            => LET same == SameNamedCerts(r)
                   old == IF same = <<>> THEN None ELSE same[Len(same)].id
               IN  /\ run[r].cert_id = old
                   /\ \A j \in Issued(r, {"get_activation"}) :
                         /\ run[r].calls[j].id = old
                         /\ run[r].calls[j].ok =>
                               \A a \in DOMAIN run[r].acts0 :
                                   (run[r].acts0[a] = old)
                                       <=> (\E l \in DOMAIN run[r].act_id : run[r].act_id[l] = a)
                   /\ \A j \in Issued(r, {"patch_activation"}) :
                         run[r].acts0[run[r].calls[j].id] = old
                   /\ \A j \in Issued(r, {"delete_certificate"}) : run[r].calls[j].id = old
                   /\ (Finished(r) /\ old # None) => Issued(r, {"delete_certificate"}) # {}

\* C19's case: two certificates of the name in the listing; the run moved an
\* activation off the second and deleted it, and the first is still there
C19_Witness ==
    \E r \in Runs :
        /\ Finished(r) /\ Mismatch(r) /\ Len(SameNamedCerts(r)) = 2
        /\ \E j \in Issued(r, {"patch_activation"}) :
              /\ run[r].calls[j].ok
              /\ run[r].acts0[run[r].calls[j].id] = SameNamedCerts(r)[2].id
        /\ \E j \in Issued(r, {"delete_certificate"}) :
              /\ run[r].calls[j].ok
              /\ run[r].calls[j].id = SameNamedCerts(r)[2].id
        /\ \E c \in certs : c.id = SameNamedCerts(r)[1].id

\* C20: fail-fast.  If the create of the new private key fails, the run stops
\* there: it issues no create of a certificate, no update of an activation
\* and no delete.
C20_FailFastOnKeyCreate ==
    \A r \in Runs :
        (\E j \in Issued(r, {"post_private_key"}) : ~run[r].calls[j].ok)
            => Issued(r, {"post_certificate"} \cup Updates \cup Deletes) = {}

\* the listing of the private keys run r got holds a key with the name of its
\* certificate and the desired fingerprint
ListedMatch(r) ==
    \E j \in DOMAIN run[r].priv_keys :
        /\ run[r].priv_keys[j].name = run[r].cname
        /\ KeyMatches(run[r].priv_keys[j], run[r].private_key)

\* C21: a run issues no create, update or delete if and only if the listing
\* of the private keys it got holds a key with the name of the certificate
\* and the desired fingerprint, wherever in the listing that key stands and
\* whether or not a certificate of the name exists: once through Lookup the
\* run is at its end with nothing issued exactly when there is such a key, and
\* otherwise it is about to create the private key or has done so.
C21_NoOpIffListedMatch ==
    \A r \in Runs :
        LookedUp(r) =>
            LET c == run[r].calls IN
            /\ ListedMatch(r) <=>
                  (Finished(r) /\ \A j \in DOMAIN c : c[j].op \notin Mutations)
            /\ ~ListedMatch(r) <=>
                  \/ run[r].pc = "post_private_key"
                  \/ \E j \in DOMAIN c : c[j].op = "post_private_key"

\* C21's case: the matching key stands last in the listing, after a key of
\* another name, no certificate of the name exists, and the run is at its end
\* without a create, update or delete
C21_Witness ==
    \E r \in Runs :
        /\ Finished(r) /\ Issued(r, Mutations) = {}
        /\ Len(run[r].priv_keys) = 2
        /\ run[r].priv_keys[1].name # run[r].cname
        /\ run[r].priv_keys[2].name = run[r].cname
        /\ KeyMatches(run[r].priv_keys[2], run[r].private_key)
        /\ Named(certs, run[r].cname) = {}

\* C22: every update of an activation a run issues points the activation to
\* the id the run's own create of the certificate returned, which is an id
\* (not None) of a certificate that is on the remote service while the run
\* lasts; and a run whose create of the certificate failed issues no update of
\* an activation at all.
C22_UpdatesToCreatedCertificate ==
    \A r \in Runs :
        LET c == run[r].calls IN
        \A j \in DOMAIN c :
            c[j].op \in Updates =>
                /\ c[j].to # None
                /\ \E l \in 1..(j - 1) :
                      /\ c[l].op = "post_certificate"
                      /\ c[l].ok
                      /\ c[l].id = c[j].to
                /\ \E x \in certs : x.id = c[j].to
                /\ \A l \in DOMAIN c : c[l].op = "post_certificate" => c[l].ok

\* C22's case: the create of the certificate failed, the run found
\* activations on the old certificate and is at its end without an update
C22_Witness ==
    \E r \in Runs :
        /\ Finished(r)
        /\ \E l \in Issued(r, {"post_certificate"}) : ~run[r].calls[l].ok
        /\ Len(run[r].act_id) > 0
        /\ Issued(r, Updates) = {}

\* the members of an inventory that are not named n
NotNamed(S, n) == {x \in S : x.name # n}

\* the activations run r has updated with success
Updated(r) ==
    {run[r].calls[j].id : j \in {l \in Issued(r, Updates) : run[r].calls[l].ok}}

\* C23: frame.  A run for the name N leaves every private key and every
\* certificate of another name as it found it; it issues no delete of the key
\* or the certificate it created, and what it created stays on the remote
\* service; it issues updates only for activations that referenced the old
\* certificate it recorded when it listed the activations, and every other
\* activation references what it referenced before.
C23_Frame ==
    \A r \in Runs :
        run[r].pc # "idle" =>
            LET c == run[r].calls
                n == run[r].cname IN
            /\ \A k \in keys : k.name # n => k \in run[r].keys0
            /\ \A k \in run[r].keys0 : k.name # n => k \in keys
            /\ \A x \in certs : x.name # n => x \in run[r].certs0
            /\ \A x \in run[r].certs0 : x.name # n => x \in certs
            /\ \A j \in DOMAIN c :
                  /\ (c[j].op = "post_private_key" /\ c[j].id # None) =>
                        /\ \E k \in keys : k.id = c[j].id
                        /\ \A l \in DOMAIN c :
                              c[l].op = "delete_private_key" => c[l].id # c[j].id
                  /\ (c[j].op = "post_certificate" /\ c[j].id # None) =>
                        /\ \E x \in certs : x.id = c[j].id
                        /\ \A l \in DOMAIN c :
                              c[l].op = "delete_certificate" => c[l].id # c[j].id
                  /\ c[j].op \in Updates =>
                        /\ run[r].cert_id # None
                        /\ run[r].acts0[c[j].id] = run[r].cert_id
                        /\ \E l \in DOMAIN run[r].act_id : run[r].act_id[l] = c[j].id
            /\ DOMAIN acts = DOMAIN run[r].acts0
            /\ \A a \in DOMAIN acts :
                  acts[a] # run[r].acts0[a] =>
                      \E j \in DOMAIN c : c[j].op \in Updates /\ c[j].ok /\ c[j].id = a

\* C23's case: a run replaced the key and the certificate of its name and
\* moved an activation, next to a key, a certificate and an activation of
\* another name, and is at its end with all its calls returned
C23_Witness ==
    \E r \in Runs :
        /\ Finished(r) /\ AllReturned(r)
        /\ Issued(r, {"delete_private_key"}) # {}
        /\ Issued(r, {"delete_certificate"}) # {}
        /\ Updated(r) # {}
        /\ NotNamed(keys, run[r].cname) # {}
        /\ NotNamed(certs, run[r].cname) # {}
        /\ \E a \in DOMAIN acts : \E c \in NotNamed(certs, run[r].cname) : acts[a] = c.id

====
